---- MODULE Spec2Model ----
(***************************************************************************)
(* NextFrameSetupSystem (rhusics-ecs/src/physics/systems/next_frame.rs).   *)
(*                                                                         *)
(* The system's run method joins component storages twice and hands each   *)
(* join to a function of the core crate: next_frame_integration (force     *)
(* integration) and then next_frame_pose (pose integration).  The model    *)
(* keeps one storage per component as a partial function from entity ids,  *)
(* iterates each join in an arbitrary order one entity at a time, and      *)
(* instantiates the generic numeric types with a planar configuration:     *)
(* two-component vectors, a scalar angle, a scalar inertia, over the f32    *)
(* scalar: every operation rounds to the nearest 24-bit significand, zeros *)
(* are signed, and a zero divisor yields an infinity or NaN.               *)
(***************************************************************************)
EXTENDS Integers, FiniteSets, Sequences, TLC

\* ---------------------------------------------------------------- bounds
NumEntities == 2
MaxMissing == 2
MaxTicks == 2

Entities == 1..NumEntities

Components == {"PhysicalEntity", "Mass", "NextVelocity", "Pose", "NextPose", "ForceAccumulator"}

\* ------------------------------------------------------- numeric layer
\* P::Scalar: BaseFloat, instantiated with f32: binary floating point with a
\* 24-bit significand, round to nearest (ties to even), signed zeros,
\* subnormals, infinities and NaN.  A scalar is [neg, man, exp] and stands for
\* (-1)^neg * man * 2^exp.  A finite scalar has man < 2^24 and
\* MinPow <= exp <= MaxPow, with man >= 2^23 unless exp = MinPow; zero is
\* man = 0 at exp = MinPow.  exp = MaxPow + 1 holds the infinities (man = 0)
\* and NaN (man = 1).
MantissaDigits == 24

MaxExp == 128

MinPow == 3 - MaxExp - MantissaDigits

MaxPow == MaxExp - MantissaDigits

Abs(i) == IF i < 0 THEN -i ELSE i

Max(i, j) == IF i < j THEN j ELSE i

Min(i, j) == IF i < j THEN i ELSE j

RECURSIVE Doubled(_)
Doubled(n) == IF n = 0 THEN 1 ELSE 2 * Doubled(n - 1)

Powers == [n \in 0..30 |-> Doubled(n)]

\* 2^n, for n in 0..30.
Pow2(n) == Powers[n]

RECURSIVE BitLenBelow(_, _)
BitLenBelow(m, k) == IF k = 0 \/ m >= Pow2(k - 1) THEN k ELSE BitLenBelow(m, k - 1)

\* The number of bits of m, for m in 0..2^31-1.
BitLen(m) == BitLenBelow(m, 31)

NaN == [neg |-> FALSE, man |-> 1, exp |-> MaxPow + 1]

Inf(neg) == [neg |-> neg, man |-> 0, exp |-> MaxPow + 1]

Zero(neg) == [neg |-> neg, man |-> 0, exp |-> MinPow]

IsNaN(a) == a.exp > MaxPow /\ a.man # 0

IsInf(a) == a.exp > MaxPow /\ a.man = 0

IsZero(a) == a.exp <= MaxPow /\ a.man = 0

\* The finite scalar of a significand and an exponent, or an infinity when the
\* exponent is out of range.
Finite(neg, man, exp) ==
    IF exp > MaxPow THEN Inf(neg) ELSE [neg |-> neg, man |-> man, exp |-> exp]

\* The scalar nearest to (-1)^neg * (m + s) * 2^e, where m < 2^30 and s is a
\* fraction in (0, 1) when sticky and 0 otherwise; ties go to the even
\* significand.
Round(neg, m, e, sticky) ==
    IF m = 0 THEN Zero(neg)
    ELSE LET bits == BitLen(m)
             shift == Max(bits - MantissaDigits, MinPow - e)
         IN IF shift <= 0
            THEN LET up == Min(MantissaDigits - bits, e - MinPow)
                 IN Finite(neg, m * Pow2(up), e - up)
            ELSE IF shift > 30 THEN Zero(neg)
            ELSE LET q == m \div Pow2(shift)
                     r == m % Pow2(shift)
                     half == Pow2(shift - 1)
                     away == r > half \/ (r = half /\ (sticky \/ q % 2 = 1))
                     n == IF away THEN q + 1 ELSE q
                 IN IF n = 0 THEN Zero(neg)
                    ELSE IF n = Pow2(MantissaDigits)
                    THEN Finite(neg, n \div 2, e + shift + 1)
                    ELSE Finite(neg, n, e + shift)

\* A finite non-zero scalar with its significand left-justified to 24 bits;
\* the exponent may then lie below MinPow.
Justified(a) ==
    LET up == MantissaDigits - BitLen(a.man)
    IN [man |-> a.man * Pow2(up), exp |-> a.exp - up]

\* The scalar of an integer of magnitude below 2^30.
Scalar(i) == Round(i < 0, Abs(i), 0, FALSE)

\* a + b
RAdd(a, b) ==
    IF IsNaN(a) \/ IsNaN(b) THEN NaN
    ELSE IF IsInf(a) THEN (IF IsInf(b) /\ b.neg # a.neg THEN NaN ELSE a)
    ELSE IF IsInf(b) THEN b
    ELSE LET swap == b.exp > a.exp \/ (b.exp = a.exp /\ b.man > a.man)
             hi == IF swap THEN b ELSE a
             lo == IF swap THEN a ELSE b
             d == hi.exp - lo.exp
             far == d > MantissaDigits + 3
             A == hi.man * 8
             B == IF far THEN 0 ELSE (lo.man * 8) \div Pow2(d)
             sticky == IF far THEN lo.man # 0 ELSE (lo.man * 8) % Pow2(d) # 0
             e == hi.exp - 3
         IN IF hi.neg = lo.neg THEN Round(hi.neg, A + B, e, sticky)
            ELSE IF sticky THEN Round(hi.neg, A - B - 1, e, TRUE)
            ELSE IF A = B THEN Zero(FALSE)
            ELSE Round(hi.neg, A - B, e, FALSE)

\* a * b
RMul(a, b) ==
    IF IsNaN(a) \/ IsNaN(b) THEN NaN
    ELSE IF IsInf(a) \/ IsInf(b)
    THEN (IF IsZero(a) \/ IsZero(b) THEN NaN ELSE Inf(a.neg # b.neg))
    ELSE IF IsZero(a) \/ IsZero(b) THEN Zero(a.neg # b.neg)
    ELSE LET x == Justified(a)
             y == Justified(b)
             L == MantissaDigits \div 2
             x1 == x.man \div Pow2(L)
             x0 == x.man % Pow2(L)
             y1 == y.man \div Pow2(L)
             y0 == y.man % Pow2(L)
             mid == x1 * y0 + x0 * y1
             low == (mid % Pow2(L)) * Pow2(L) + x0 * y0
             high == x1 * y1 + (mid \div Pow2(L)) + (low \div Pow2(2 * L))
             rest == low % Pow2(2 * L)
         IN Round(a.neg # b.neg,
                  high * 4 + (rest \div Pow2(2 * L - 2)),
                  x.exp + y.exp + 2 * L - 2,
                  rest % Pow2(2 * L - 2) # 0)

\* The quotient and remainder of m * 2^n by k, bit by bit: <<quotient, remainder>>.
RECURSIVE LongDiv(_, _, _, _)
LongDiv(q, r, k, n) ==
    IF n = 0 THEN <<q, r>>
    ELSE IF r = 0 THEN <<q * Pow2(n), r>>
    ELSE IF 2 * r >= k THEN LongDiv(2 * q + 1, 2 * r - k, k, n - 1)
    ELSE LongDiv(2 * q, 2 * r, k, n - 1)

\* a / b
RDiv(a, b) ==
    IF IsNaN(a) \/ IsNaN(b) THEN NaN
    ELSE IF IsInf(a) THEN (IF IsInf(b) THEN NaN ELSE Inf(a.neg # b.neg))
    ELSE IF IsInf(b) THEN Zero(a.neg # b.neg)
    ELSE IF IsZero(b) THEN (IF IsZero(a) THEN NaN ELSE Inf(a.neg # b.neg))
    ELSE IF IsZero(a) THEN Zero(a.neg # b.neg)
    ELSE LET x == Justified(a)
             y == Justified(b)
             qr == LongDiv(x.man \div y.man, x.man % y.man, y.man, MantissaDigits + 2)
         IN Round(a.neg # b.neg, qr[1], x.exp - y.exp - (MantissaDigits + 2), qr[2] # 0)

\* The scalar the division n / d of two integers yields.
Rat(n, d) == RDiv(Scalar(n), Scalar(d))

VecAdd(a, b) == <<RAdd(a[1], b[1]), RAdd(a[2], b[2])>>

VecScale(a, k) == <<RMul(a[1], k), RMul(a[2], k)>>

VecDiv(a, k) == <<RDiv(a[1], k), RDiv(a[2], k)>>

\* The vector of two integers.
Vec(x, y) == <<Scalar(x), Scalar(y)>>

ZeroVec == Vec(0, 0)

ZeroForce == [force |-> ZeroVec, torque |-> Scalar(0)]

\* ------------------------------------------------------------- inputs
\* Masses and inertias are positive (the Mass component's invariant, owned by
\* the caller).  The gravity -9.8 and the time step 1/60 are not representable:
\* they are the nearest scalars, and the products and sums they enter round.
GravityValues == {ZeroVec, <<Scalar(0), Rat(-98, 10)>>}

DeltaValues == {Scalar(2), Rat(1, 60)}

ForceValues == {ZeroForce, [force |-> Vec(3, -3), torque |-> Scalar(1)]}

InitVelocity(e) == [linear |-> Vec(e, -e), angular |-> Scalar(e)]

InitPose(e) == [position |-> Vec(10 * e, 0), rotation |-> Scalar(e)]

InitNextPose(e) == [position |-> Vec(100, 100 + e), rotation |-> Scalar(50)]

InitMass(e) == [mass |-> Scalar(1 + (e % 2)), inertia |-> Scalar(1 + ((e + 1) % 2))]

\* Assignments of component sets to entities in which at most MaxMissing
\* components are absent over all entities together.
RECURSIVE Missing(_, _)
Missing(c, S) ==
    IF S = {} THEN 0
    ELSE LET e == CHOOSE x \in S : TRUE
         IN Cardinality(Components \ c[e]) + Missing(c, S \ {e})

Layouts == {c \in [Entities -> SUBSET Components] : Missing(c, Entities) <= MaxMissing}

With(c, name) == {e \in Entities : name \in c[e]}

\* -------------------------------------------------------------- state
VARIABLES
    time,             \* Read<D>: delta_seconds of the tick
    params,           \* Read<WorldParameters>
    entities,         \* ReadStorage<PhysicalEntity>: the entities carrying the marker
    masses,           \* ReadStorage<Mass>
    next_velocities,  \* WriteStorage<NextFrame<Velocity>>
    poses,            \* ReadStorage<T>
    next_poses,       \* WriteStorage<NextFrame<T>>
    forces,           \* WriteStorage<ForceAccumulator>
    pc,               \* position of run: "idle", "force", "pose", "done"
    force_done,       \* entities the force join has yielded so far
    pose_done,        \* entities the pose join has yielded so far
    pre,              \* the writable storages as they were when run was entered
    applied,          \* entities whose accumulator has ever been given a force
    ticks             \* completed invocations of run

vars == <<time, params, entities, masses, next_velocities, poses, next_poses, forces,
          pc, force_done, pose_done, pre, applied, ticks>>

Storages == [next_velocities |-> next_velocities, next_poses |-> next_poses, forces |-> forces]

Init ==
    /\ time \in DeltaValues
    /\ \E g \in GravityValues : params = [gravity |-> g]
    /\ \E c \in Layouts :
         /\ entities = With(c, "PhysicalEntity")
         /\ masses = [e \in With(c, "Mass") |-> InitMass(e)]
         /\ next_velocities = [e \in With(c, "NextVelocity") |-> InitVelocity(e)]
         /\ poses = [e \in With(c, "Pose") |-> InitPose(e)]
         /\ next_poses = [e \in With(c, "NextPose") |-> InitNextPose(e)]
         /\ forces \in [With(c, "ForceAccumulator") -> ForceValues]
    /\ pc = "idle"
    /\ force_done = {}
    /\ pose_done = {}
    /\ pre = Storages
    /\ applied = {e \in DOMAIN forces : forces[e] # ZeroForce}
    /\ ticks = 0

\* ---------------------------------------------------- core (per item)
\* next_frame_integration, one item of its iterator: the new velocity.
IntegrateVelocity(v, f, m, world, dt) ==
    [linear |-> VecAdd(v.linear, VecScale(VecAdd(VecDiv(f.force, m.mass), world.gravity), dt)),
     angular |-> RAdd(v.angular, RMul(RDiv(f.torque, m.inertia), dt))]

\* next_frame_pose, one item of its iterator: the new next-frame pose.
IntegratePose(pose, v, dt) ==
    [position |-> VecAdd(pose.position, VecScale(v.linear, dt)),
     rotation |-> RAdd(pose.rotation, RMul(v.angular, dt))]

\* ------------------------------------------------------------- run
\* A force join that leaves out the PhysicalEntity storage.
ForceJoinNoMarker ==
    DOMAIN next_velocities \cap DOMAIN next_poses \cap DOMAIN forces \cap DOMAIN masses

\* The join of the force phase.
ForceJoin ==
    DOMAIN next_velocities \cap DOMAIN next_poses \cap DOMAIN forces
        \cap DOMAIN masses \cap entities

\* A pose join that also asks for the Mass storage, as the force join does.
PoseJoinWithMass ==
    DOMAIN next_velocities \cap DOMAIN poses \cap DOMAIN next_poses
        \cap DOMAIN masses \cap entities

\* A pose join that leaves out the PhysicalEntity storage.
PoseJoinNoMarker ==
    DOMAIN next_velocities \cap DOMAIN poses \cap DOMAIN next_poses

\* The join of the pose phase.
PoseJoin ==
    DOMAIN next_velocities \cap DOMAIN poses \cap DOMAIN next_poses \cap entities

\* A force join that pairs entity e with the accumulator of another joined entity.
ForceJoinItemCrossed(st, e) ==
    LET others == DOMAIN st.forces \ {e}
        o == IF others = {} THEN e ELSE CHOOSE x \in others : TRUE
    IN [next_velocity |-> st.next_velocities[e], next_pose |-> st.next_poses[e],
        force |-> st.forces[o], mass |-> masses[e]]

\* The tuple the force join yields for entity e.
ForceJoinItem(st, e) ==
    [next_velocity |-> st.next_velocities[e], next_pose |-> st.next_poses[e],
     force |-> st.forces[e], mass |-> masses[e]]

\* A pose join that reads the next-frame pose storage where the pose storage belongs.
PoseJoinItemStale(st, e) ==
    [next_velocity |-> st.next_velocities[e], pose |-> st.next_poses[e],
     next_pose |-> st.next_poses[e]]

\* The tuple the pose join yields for entity e.
PoseJoinItem(st, e) ==
    [next_velocity |-> st.next_velocities[e], pose |-> poses[e], next_pose |-> st.next_poses[e]]

\* Default world parameters instead of the resource.
ForceParamsDefault == [gravity |-> ZeroVec]

\* The world parameters handed to next_frame_integration.
ForceParams == params

\* The time step handed to next_frame_integration.
ForceDelta == time

\* The time step handed to next_frame_pose.
PoseDelta == time

\* One item of the force phase applied to the writable storages.
ForceItem(st, e) ==
    LET item == ForceJoinItem(st, e)
    IN [st EXCEPT
          !.next_velocities[e] =
              IntegrateVelocity(item.next_velocity, item.force, item.mass, ForceParams, ForceDelta),
          !.forces[e] = ZeroForce]

\* One item of the pose phase applied to the writable storages.
PoseItem(st, e) ==
    LET item == PoseJoinItem(st, e)
    IN [st EXCEPT !.next_poses[e] = IntegratePose(item.pose, item.next_velocity, PoseDelta)]

\* The pose phase entered without waiting for the force iterator.
ForceCompleteEarly == force_done \subseteq ForceJoin

\* next_frame_integration has returned: its iterator is exhausted.
ForceComplete == force_done = ForceJoin

\* next_frame_pose has returned.
PoseComplete == pose_done = PoseJoin

Put(st) ==
    /\ next_velocities' = st.next_velocities
    /\ next_poses' = st.next_poses
    /\ forces' = st.forces

Begin ==
    /\ pc = "idle"
    /\ ticks < MaxTicks
    /\ pc' = "force"
    /\ force_done' = {}
    /\ pose_done' = {}
    /\ pre' = Storages
    /\ UNCHANGED <<time, params, entities, masses, next_velocities, poses, next_poses,
                   forces, applied, ticks>>

ForceStep ==
    /\ pc = "force"
    /\ \E e \in ForceJoin \ force_done :
         /\ Put(ForceItem(Storages, e))
         /\ force_done' = force_done \cup {e}
    /\ UNCHANGED <<time, params, entities, masses, poses, pc, pose_done, pre, applied, ticks>>

StartPose ==
    /\ pc = "force"
    /\ ForceComplete
    /\ pc' = "pose"
    /\ UNCHANGED <<time, params, entities, masses, next_velocities, poses, next_poses,
                   forces, force_done, pose_done, pre, applied, ticks>>

PoseStep ==
    /\ pc = "pose"
    /\ \E e \in PoseJoin \ pose_done :
         /\ Put(PoseItem(Storages, e))
         /\ pose_done' = pose_done \cup {e}
    /\ UNCHANGED <<time, params, entities, masses, poses, pc, force_done, pre, applied, ticks>>

Finish ==
    /\ pc = "pose"
    /\ PoseComplete
    /\ pc' = "done"
    /\ ticks' = ticks + 1
    /\ UNCHANGED <<time, params, entities, masses, next_velocities, poses, next_poses,
                   forces, force_done, pose_done, pre, applied>>

\* The external commit step between two ticks: next-frame poses become current.
Commit ==
    /\ pc = "done"
    /\ poses' = [e \in DOMAIN poses |->
                    IF e \in DOMAIN next_poses THEN next_poses[e] ELSE poses[e]]
    /\ pc' = "idle"
    /\ UNCHANGED <<time, params, entities, masses, next_velocities, next_poses, forces,
                   force_done, pose_done, pre, applied, ticks>>

Next == Begin \/ ForceStep \/ StartPose \/ PoseStep \/ Finish \/ Commit

Spec == Init /\ [][Next]_vars

\* ------------------------------------------------------ vocabulary
\* The content of entity e's slot in a storage: <<value>>, or <<>> when absent.
Slot(storage, e) == IF e \in DOMAIN storage THEN <<storage[e]>> ELSE <<>>

Done == pc = "done"

\* The entities the force phase iterates: marker, mass, next-frame velocity,
\* next-frame pose and force accumulator.
ForceIterated ==
    {e \in Entities : /\ e \in entities
                      /\ e \in DOMAIN masses
                      /\ e \in DOMAIN next_velocities
                      /\ e \in DOMAIN next_poses
                      /\ e \in DOMAIN forces}

\* The force phase's entity set as section 4.1 of the specification words it:
\* marker, mass, current pose, next-frame velocity and force accumulator.
ForceStated ==
    {e \in Entities : /\ e \in entities
                      /\ e \in DOMAIN masses
                      /\ e \in DOMAIN poses
                      /\ e \in DOMAIN next_velocities
                      /\ e \in DOMAIN forces}

\* The entities the pose phase iterates: marker, next-frame velocity, current
\* pose and next-frame pose.
PoseIterated ==
    {e \in Entities : /\ e \in entities
                      /\ e \in DOMAIN next_velocities
                      /\ e \in DOMAIN poses
                      /\ e \in DOMAIN next_poses}

\* The pose phase's entity set as section 4.2 of the specification words it.
PoseStated ==
    {e \in Entities : /\ e \in DOMAIN next_velocities
                      /\ e \in DOMAIN poses
                      /\ e \in DOMAIN next_poses}

\* One semi-implicit Euler step of entity e's velocity from its value at entry.
EulerVelocity(e) ==
    LET v == pre.next_velocities[e]
        f == pre.forces[e]
        g == params.gravity
    IN [linear |-> <<RAdd(v.linear[1], RMul(RAdd(RDiv(f.force[1], masses[e].mass), g[1]), time)),
                     RAdd(v.linear[2], RMul(RAdd(RDiv(f.force[2], masses[e].mass), g[2]), time))>>,
        angular |-> RAdd(v.angular, RMul(RDiv(f.torque, masses[e].inertia), time))]

\* The current pose of e advanced by velocity v over the elapsed time.
Advanced(e, v) ==
    [position |-> <<RAdd(poses[e].position[1], RMul(v.linear[1], time)),
                    RAdd(poses[e].position[2], RMul(v.linear[2], time))>>,
     rotation |-> RAdd(poses[e].rotation, RMul(v.angular, time))]

\* ---------------------------------------------------------------- C1
\* C1: within one invocation the force phase has run over every entity it
\* iterates before the pose phase writes any next-frame pose, no velocity or
\* accumulator changes once the pose phase has begun, and every next-frame
\* position written is the current position plus the post-force velocity
\* times dt.
C1_ForceBeforePose ==
    [][/\ (next_velocities' # next_velocities \/ forces' # forces)
            => (pc = "force" /\ pc' = "force" /\ pose_done = {})
       /\ \A e \in Entities :
            Slot(next_poses', e) # Slot(next_poses, e)
              => /\ ForceIterated \subseteq force_done
                 /\ \A x \in ForceIterated : forces[x] = ZeroForce
                 /\ e \in ForceIterated => next_velocities[e] = EulerVelocity(e)
                 /\ next_poses'[e] = Advanced(e, next_velocities[e])]_vars

C1_Witness ==
    /\ Done
    /\ \E e \in ForceIterated \cap PoseIterated :
         /\ next_velocities[e].linear # pre.next_velocities[e].linear
         /\ next_poses[e] = Advanced(e, next_velocities[e])
         /\ next_poses[e] # Advanced(e, pre.next_velocities[e])

\* ---------------------------------------------------------------- C2
\* C2 as stated: after an invocation every entity carrying marker, mass,
\* current pose, next-frame velocity and force accumulator has a zero
\* accumulator.
C2_Stated == Done => \A e \in ForceStated : forces[e] = ZeroForce

\* C2 amended: after an invocation every entity carrying marker, mass,
\* next-frame pose, next-frame velocity and force accumulator has a zero
\* accumulator, whatever it held before.
C2_AccumulatorReset == Done => \A e \in ForceIterated : forces[e] = ZeroForce

C2_Witness ==
    /\ Done
    /\ \E e \in ForceIterated : pre.forces[e] # ZeroForce /\ forces[e] = ZeroForce
    /\ \E e \in ForceIterated : pre.forces[e] = ZeroForce /\ forces[e] = ZeroForce

\* ---------------------------------------------------------------- C3
\* C3 as stated: an invocation sets the next-frame velocity of every entity
\* carrying marker, mass, current pose, next-frame velocity and force
\* accumulator to one Euler step from its value at entry.
C3_Stated == Done => \A e \in ForceStated : next_velocities[e] = EulerVelocity(e)

\* C3 amended: an invocation sets the next-frame velocity of every entity
\* carrying marker, mass, next-frame pose, next-frame velocity and force
\* accumulator to v + (force / mass + gravity) * dt and
\* w + (torque / inertia) * dt, from the values at entry.
C3_EulerStep == Done => \A e \in ForceIterated : next_velocities[e] = EulerVelocity(e)

C3_Witness ==
    /\ Done
    /\ params.gravity # ZeroVec
    /\ \E e \in ForceIterated :
         /\ pre.forces[e] # ZeroForce
         /\ next_velocities[e] = EulerVelocity(e)
         /\ next_velocities[e].linear # pre.next_velocities[e].linear
         /\ next_velocities[e].angular # pre.next_velocities[e].angular

\* ---------------------------------------------------------------- C4
\* C4 as stated: an invocation writes the next-frame pose of every entity
\* carrying next-frame velocity, current pose and next-frame pose, no other
\* component required.
C4_Stated == Done => \A e \in PoseStated : next_poses[e] = Advanced(e, next_velocities[e])

\* C4 amended: an invocation writes the next-frame pose of every entity
\* carrying the marker, next-frame velocity, current pose and next-frame pose
\* as the pre-tick current pose advanced by the next-frame velocity over dt,
\* whatever the slot held before.
C4_NextPose == Done => \A e \in PoseIterated : next_poses[e] = Advanced(e, next_velocities[e])

C4_Witness ==
    /\ Done
    /\ \E e \in PoseIterated \ DOMAIN masses :
         /\ next_poses[e] = Advanced(e, next_velocities[e])
         /\ next_poses[e] # pre.next_poses[e]
         /\ next_poses[e].position # VecAdd(pre.next_poses[e].position,
                                            VecScale(next_velocities[e].linear, time))

\* ---------------------------------------------------------------- C5
\* C5 as stated: an entity without mass keeps its next-frame velocity slot
\* and its next-frame pose slot through an invocation.
C5_Stated ==
    Done => \A e \in Entities \ DOMAIN masses :
              /\ Slot(next_velocities, e) = Slot(pre.next_velocities, e)
              /\ Slot(next_poses, e) = Slot(pre.next_poses, e)

\* C5 amended: an entity without mass keeps its next-frame velocity slot
\* through an invocation, and keeps its next-frame pose slot unless it carries
\* the marker, a next-frame velocity, a current pose and a next-frame pose.
C5_NoMass ==
    Done => \A e \in Entities \ DOMAIN masses :
              /\ Slot(next_velocities, e) = Slot(pre.next_velocities, e)
              /\ e \notin PoseIterated => Slot(next_poses, e) = Slot(pre.next_poses, e)

C5_Witness ==
    /\ Done
    /\ \E e \in PoseIterated \ DOMAIN masses :
         /\ e \in DOMAIN forces
         /\ pre.forces[e] # ZeroForce
         /\ forces[e] = pre.forces[e]
         /\ next_velocities[e] = pre.next_velocities[e]
         /\ next_poses[e] # pre.next_poses[e]

\* ---------------------------------------------------------------- C6
\* C6: an entity without the PhysicalEntity marker keeps its next-frame
\* velocity, its next-frame pose and its force accumulator through an
\* invocation, whatever else it carries.
C6_NoMarker ==
    Done => \A e \in Entities \ entities :
              /\ Slot(next_velocities, e) = Slot(pre.next_velocities, e)
              /\ Slot(next_poses, e) = Slot(pre.next_poses, e)
              /\ Slot(forces, e) = Slot(pre.forces, e)

C6_Witness ==
    /\ Done
    /\ \E e \in Entities \ entities :
         /\ e \in DOMAIN masses \cap DOMAIN next_velocities \cap DOMAIN poses
                \cap DOMAIN next_poses \cap DOMAIN forces
         /\ forces[e] # ZeroForce
         /\ next_poses[e] # Advanced(e, next_velocities[e])

\* ---------------------------------------------------------------- C7
\* C7 as stated: an entity missing any of marker, mass, current pose,
\* next-frame velocity or force accumulator keeps its next-frame velocity and
\* its accumulator through an invocation.
C7_Stated ==
    Done => \A e \in Entities \ ForceStated :
              /\ Slot(next_velocities, e) = Slot(pre.next_velocities, e)
              /\ Slot(forces, e) = Slot(pre.forces, e)

\* C7 amended: an entity missing any of marker, mass, next-frame pose,
\* next-frame velocity or force accumulator keeps its next-frame velocity and
\* its accumulator through an invocation; an entity that has no current pose
\* but has the other five and a next-frame pose is integrated.
C7_Untouched ==
    Done => \A e \in Entities \ ForceIterated :
              /\ Slot(next_velocities, e) = Slot(pre.next_velocities, e)
              /\ Slot(forces, e) = Slot(pre.forces, e)

C7_Witness ==
    /\ Done
    /\ \E e \in ForceStated \ ForceIterated :
         /\ pre.forces[e] # ZeroForce
         /\ forces[e] = pre.forces[e]
         /\ next_velocities[e] = pre.next_velocities[e]

\* ---------------------------------------------------------------- C8
\* v0 + n * g * dt for entity e, one component, evaluated in the scalar type.
ClosedForm(e, i) ==
    RAdd(InitVelocity(e).linear[i], RMul(Scalar(ticks), RMul(params.gravity[i], time)))

RECURSIVE Accumulated(_, _, _)
\* v with the scalar x added n times, one rounding per addition.
Accumulated(v, x, n) == IF n = 0 THEN v ELSE RAdd(Accumulated(v, x, n - 1), x)

\* The signed significand of a at the exponent u <= a.exp.
Units(a, u) == (IF a.neg THEN -a.man ELSE a.man) * Pow2(a.exp - u)

\* The entities the force phase iterates whose accumulator was never given a force.
Unforced == ForceIterated \ applied

\* C8 as stated: between invocations, an entity the force phase iterates whose
\* accumulator was never given a force has next-frame linear velocity equal to
\* v0 + n * g * dt after n invocations, with the commit step between ticks.
C8_Stated ==
    pc \in {"idle", "done"} =>
      \A e \in Unforced : \A i \in 1..2 :
        next_velocities[e].linear[i] = ClosedForm(e, i)

\* C8 amended: after n invocations that velocity is v0 with the rounded
\* product g * dt added n times, one rounding per tick (the slot accumulates
\* and is never reset); it equals v0 + n * g * dt within floating-point
\* tolerance: the two differ by at most (n + 2) / 2 units in the last place of
\* the largest of v0, n * g * dt and the two results.
C8_GravityAccumulates ==
    pc \in {"idle", "done"} =>
      \A e \in Unforced : \A i \in 1..2 :
        LET v == next_velocities[e].linear[i]
            v0 == InitVelocity(e).linear[i]
            x == RMul(params.gravity[i], time)
            c == ClosedForm(e, i)
            u == Min(v.exp, c.exp)
            top == Max(Max(v.exp, c.exp), Max(v0.exp, RMul(Scalar(ticks), x).exp))
        IN /\ v = Accumulated(v0, x, ticks)
           /\ 2 * Abs(Units(v, u) - Units(c, u)) <= (ticks + 2) * Pow2(top - u)

C8_Witness ==
    /\ pc = "idle"
    /\ ticks >= 2
    /\ \E e \in Unforced :
         /\ next_velocities[e].linear[2] # InitVelocity(e).linear[2]
         /\ next_velocities[e].linear[2] # ClosedForm(e, 2)
    /\ \E e \in Unforced :
         /\ next_velocities[e].linear[1] = ClosedForm(e, 1)

\* ---------------------------------------------------------------- C9
\* C9: with zero world acceleration, an entity iterated by both phases whose
\* accumulator is zero at entry keeps its next-frame velocity and gets the
\* next-frame position current_position + velocity * dt.
C9_NoForce ==
    Done => \A e \in ForceIterated \cap PoseIterated :
              (pre.forces[e] = ZeroForce /\ params.gravity = ZeroVec)
                => /\ next_velocities[e] = pre.next_velocities[e]
                   /\ next_poses[e].position =
                        <<RAdd(poses[e].position[1],
                               RMul(pre.next_velocities[e].linear[1], time)),
                          RAdd(poses[e].position[2],
                               RMul(pre.next_velocities[e].linear[2], time))>>

C9_Witness ==
    /\ Done
    /\ params.gravity = ZeroVec
    /\ \E e \in ForceIterated \cap PoseIterated :
         /\ pre.forces[e] = ZeroForce
         /\ pre.next_velocities[e].linear # ZeroVec
         /\ next_poses[e] # pre.next_poses[e]

\* --------------------------------------------------------------- C10
RECURSIVE ForceInOrder(_, _)
\* The storages after the force items of S are applied in ascending entity order.
ForceInOrder(st, S) ==
    IF S = {} THEN st
    ELSE LET e == CHOOSE x \in S : \A y \in S : x <= y
         IN ForceInOrder(ForceItem(st, e), S \ {e})

RECURSIVE PoseInOrder(_, _)
\* The storages after the pose items of S are applied in ascending entity order.
PoseInOrder(st, S) ==
    IF S = {} THEN st
    ELSE LET e == CHOOSE x \in S : \A y \in S : x <= y
         IN PoseInOrder(PoseItem(st, e), S \ {e})

\* C10: whatever order the two phases iterate their joins in, an invocation
\* ends with the next-frame velocities, next-frame poses and accumulators that
\* the ascending order produces from the storages at entry.
C10_OrderIndependent ==
    Done => Storages = PoseInOrder(ForceInOrder(pre, ForceIterated), PoseIterated)

C10_Witness ==
    /\ Done
    /\ Cardinality(ForceIterated \cap PoseIterated) >= 2
    /\ \A e \in ForceIterated : pre.forces[e] # ZeroForce
    /\ params.gravity # ZeroVec

====
